---- MODULE Spec2Model ----
(***************************************************************************)
(* PDF-chat.py: a PyQt window (ChatbotApp) driving a SimpleQASystem        *)
(* session through one-shot Worker threads.                                *)
(*                                                                         *)
(* Threads.  The GUI thread runs the event loop: the button/return-key     *)
(* slots, the two result slots and, at quit, cleanup_file.  Every          *)
(* Worker.start() adds a thread that runs upload_pdf or ask_question and   *)
(* emits its result, which Qt queues to the GUI thread.  The session field *)
(* uploaded_file_ref is shared by all of them without a lock, so each      *)
(* read or write of it, and each provider call, is a step of its own.      *)
(*                                                                         *)
(* Texts are sequences of tokens; the token NL is the line break of        *)
(* QTextEdit's plain text.                                                 *)
(***************************************************************************)
EXTENDS Integers, Sequences, FiniteSets

VARIABLES
    uploaded_file_ref,  \* SimpleQASystem.uploaded_file_ref: None or a handle
    calls,              \* the calls made on the provider client, in order
    workers,            \* every Worker started so far, in start order
    signals,            \* result signals emitted and not yet delivered
    mainPc,             \* where the GUI thread is
    mainO,              \* how the quit-time try block of cleanup_file ended so far
    pdf_processed,      \* ChatbotApp.pdf_processed
    upload_button,      \* upload_button.isEnabled()
    question_input,     \* question_input.isEnabled()
    send_button,        \* send_button.isEnabled()
    pdf_label,          \* pdf_label.text()
    chat_history,       \* chat_history.toPlainText()
    warnings,           \* QMessageBox.warning dialogs shown so far
    api_key,            \* os.getenv("GEMINI_API_KEY"), "" when it is missing
    critical_dialogs,   \* QMessageBox.critical dialogs shown so far
    exit_status,        \* <<>>, or <<n>> once sys.exit(n) has been called
    window_shown,       \* window.show() has run
    qa_system           \* ChatbotApp.qa_system exists

vars == <<uploaded_file_ref, calls, workers, signals, mainPc, mainO,
          pdf_processed, upload_button, question_input, send_button,
          pdf_label, chat_history, warnings,
          api_key, critical_dialogs, exit_status, window_shown, qa_system>>

session == <<uploaded_file_ref, calls>>
ui == <<pdf_processed, upload_button, question_input, send_button,
        pdf_label, chat_history, warnings>>
start == <<api_key, critical_dialogs, window_shown, qa_system>>
app == <<start, exit_status>>

-----------------------------------------------------------------------------
(* Bounds *)

MaxWorkers == 3     \* Worker threads started in one run
MaxWarnings == 1    \* warning dialogs shown in one run

-----------------------------------------------------------------------------
(* Values *)

None == 0

NL == "\n"
SP == " "
GEMINI == "Gemini: "
THINKING == "Thinking..."

\* "Gemini: Thinking..." (send_question, handle_question_result)
Placeholder == <<GEMINI, THINKING>>

NoDocumentText == <<"Error: No document has been successfully uploaded.">>
GenerationErrorText == <<"Gemini API Error during generation: ", "APIError">>
UploadOkText == <<"PDF uploaded successfully. You can now ask questions.">>
UploadErrText == <<"Error uploading PDF.">>
WelcomeText == <<"Welcome to the Gemini File API Chatbot.", NL, NL,
                 "1. Select and upload a PDF.", NL,
                 "2. Ask a question about the entire document.">>

\* What QFileDialog.getOpenFileName can return: "" on cancel, or a path.
Paths == {<<>>, <<"/docs/", "doc.pdf">>}

\* What the line edit can hold when send_question runs.
Typed == {<<>>, <<SP>>, <<SP, "What is X?", SP>>, <<GEMINI, THINKING>>}

\* What response.text can be.
ProviderTexts == {<<"X is Y">>, <<THINKING>>}

\* How a provider call can end: normally, by APIError, by another exception.
Outcomes == {"ok", "api_error", "error"}

\* What os.getenv("GEMINI_API_KEY") can give; None, for an unset variable,
\* is written "" here: line 117 treats the two alike.
ApiKeys == {"", "AIza-key"}

\* sys.exit(-1), line 119
KeyErrorStatus == -1

\* What app.exec() returns after a quit, line 236
QuitStatus == 0

-----------------------------------------------------------------------------
(* Text functions *)

\* os.path.basename
basename(path) == IF path = <<>> THEN <<>> ELSE <<path[Len(path)]>>

IsSpace(tok) == tok \in {SP, NL}

\* str.strip
RECURSIVE lstrip(_)
lstrip(s) == IF s # <<>> /\ IsSpace(Head(s)) THEN lstrip(Tail(s)) ELSE s

RECURSIVE rstrip(_)
rstrip(s) ==
    IF s # <<>> /\ IsSpace(s[Len(s)]) THEN rstrip(SubSeq(s, 1, Len(s) - 1)) ELSE s

strip(s) == rstrip(lstrip(s))

\* str.replace(old, new): every non-overlapping occurrence, left to right
RECURSIVE replace(_, _, _)
replace(s, old, new) ==
    IF Len(s) < Len(old) THEN s
    ELSE IF SubSeq(s, 1, Len(old)) = old
         THEN new \o replace(SubSeq(s, Len(old) + 1, Len(s)), old, new)
         ELSE <<Head(s)>> \o replace(Tail(s), old, new)

\* QTextEdit.append: the text becomes a new paragraph at the end
append(doc, text) == doc \o <<NL>> \o text

\* The paragraphs of a plain text
RECURSIVE SplitLines(_, _)
SplitLines(s, cur) ==
    IF s = <<>> THEN <<cur>>
    ELSE IF Head(s) = NL THEN <<cur>> \o SplitLines(Tail(s), <<>>)
         ELSE SplitLines(Tail(s), Append(cur, Head(s)))

Lines(text) == SplitLines(text, <<>>)

-----------------------------------------------------------------------------
(* The provider client, as the session sees it *)

Call(op, h) == [op |-> op, h |-> h]

RECURSIVE CountCalls(_, _)
CountCalls(log, op) ==
    IF log = <<>> THEN 0
    ELSE (IF Head(log).op = op THEN 1 ELSE 0) + CountCalls(Tail(log), op)

\* Handles the provider has returned from files.upload
Acquired(log) == {log[i].h : i \in {j \in 1..Len(log) : log[j].op = "upload" /\ log[j].h # None}}

\* Handles files.delete has been called for
DeleteRequested(log) == {log[i].h : i \in {j \in 1..Len(log) : log[j].op = "delete"}}

\* The handle the next successful files.upload returns
FreshHandle(log) == Cardinality(Acquired(log)) + 1

-----------------------------------------------------------------------------
(* SimpleQASystem.cleanup_file, step by step *)

\* A cleanup_file that would never find anything to delete
CleanupGuard_Never(ref) == FALSE

\* line 75: if self.uploaded_file_ref
CleanupGuard(ref) == ref # None

\* line 77: self.client.files.delete(name=self.uploaded_file_ref.name).
\* With the reference gone in the meantime, .name raises before any call.
DeleteCalls(log, ref) == IF ref # None THEN Append(log, Call("delete", ref)) ELSE log

DeleteOutcome(ref, o) == IF ref # None THEN o ELSE "attribute_error"

\* line 78: the print reads uploaded_file_ref.name once more
PrintRaises(ref, o) == o = "ok" /\ ref = None

\* line 78, reached after a files.delete that returned: how the try block ends
PrintOutcome(ref, o) == IF PrintRaises(ref, o) THEN "attribute_error" ELSE o

\* lines 79-80: only APIError is caught
CleanupRaises(o) == o \in {"error", "attribute_error"}

\* A finally that would clear the reference only after a delete that worked
ClearedRef_OnSuccessOnly(ref, o) == IF o = "ok" THEN None ELSE ref

\* lines 81-82: finally: self.uploaded_file_ref = None
ClearedRef(ref, o) == None

\* cleanup_file run from entry to exit with no other thread in between; o is
\* how files.delete ends if it is called
cleanup_file(ref, log, o) ==
    IF CleanupGuard(ref)
    THEN [ref |-> ClearedRef(ref, DeleteOutcome(ref, o)),
          calls |-> DeleteCalls(log, ref),
          raised |-> CleanupRaises(PrintOutcome(ref, DeleteOutcome(ref, o)))]
    ELSE [ref |-> ref, calls |-> log, raised |-> FALSE]

-----------------------------------------------------------------------------
(* Worker threads *)

\* Worker.__init__ and start(): a thread about to run its task.
\* o: how its files.delete call ended; ret: the value files.upload returned;
\* message, is_success: the arguments of its result signal.
\* slot is not program state: it records which paragraph of chat_history
\* send_question appended as this question's placeholder.
NewWorker(task_type, arg, slot) ==
    [task_type |-> task_type, arg |-> arg,
     pc |-> IF task_type = "upload_pdf" THEN "cleanup_check" ELSE "ask_check",
     o |-> "none", ret |-> None, message |-> <<>>, is_success |-> FALSE,
     slot |-> slot]

\* A Worker whose thread has ended and whose result, if any, has been
\* handled: nothing reads its fields again
Ended(w, pc) ==
    [task_type |-> w.task_type, arg |-> <<>>, pc |-> pc, o |-> "none",
     ret |-> None, message |-> <<>>, is_success |-> FALSE, slot |-> w.slot]

Ids == 1..Len(workers)

\* Started, not ended by an exception, result not yet handled by its slot
InFlight(i) == workers[i].pc \notin {"handled", "raised"}

\* upload_pdf line 37 -> cleanup_file line 75
UploadCleanupCheck(i) ==
    /\ workers[i].pc = "cleanup_check"
    /\ workers' = [workers EXCEPT ![i].pc =
                      IF CleanupGuard(uploaded_file_ref) THEN "cleanup_delete"
                      ELSE "upload_call"]
    /\ UNCHANGED <<session, signals, mainPc, mainO, app, ui>>

\* cleanup_file line 77; line 78 is reached only when the call returned
UploadCleanupDelete(i) ==
    /\ workers[i].pc = "cleanup_delete"
    /\ \E o \in Outcomes :
          workers' = [workers EXCEPT
                         ![i].pc = IF DeleteOutcome(uploaded_file_ref, o) = "ok"
                                   THEN "cleanup_print" ELSE "cleanup_finally",
                         ![i].o = DeleteOutcome(uploaded_file_ref, o)]
    /\ calls' = DeleteCalls(calls, uploaded_file_ref)
    /\ UNCHANGED <<uploaded_file_ref, signals, mainPc, mainO, app, ui>>

\* cleanup_file line 78: the read of uploaded_file_ref.name for the print
UploadCleanupPrint(i) ==
    /\ workers[i].pc = "cleanup_print"
    /\ workers' = [workers EXCEPT
                      ![i].pc = "cleanup_finally",
                      ![i].o = PrintOutcome(uploaded_file_ref, workers[i].o)]
    /\ UNCHANGED <<session, signals, mainPc, mainO, app, ui>>

\* cleanup_file lines 79-82, the write; an exception other than APIError
\* leaves upload_pdf (line 37 is outside its try) and Worker.run
UploadCleanupFinally(i) ==
    /\ workers[i].pc = "cleanup_finally"
    /\ uploaded_file_ref' = ClearedRef(uploaded_file_ref, workers[i].o)
    /\ workers' = [workers EXCEPT ![i] =
                      IF CleanupRaises(workers[i].o)
                      THEN Ended(@, "raised")
                      ELSE [@ EXCEPT !.pc = "upload_call", !.o = "none"]]
    /\ UNCHANGED <<calls, signals, mainPc, mainO, app, ui>>

\* upload_pdf lines 41-47, the call; lines 51-56 turn every failure into False
UploadCall(i) ==
    /\ workers[i].pc = "upload_call"
    /\ \E o \in Outcomes :
          IF o = "ok"
          THEN /\ calls' = Append(calls, Call("upload", FreshHandle(calls)))
               /\ workers' = [workers EXCEPT ![i].pc = "upload_store",
                                             ![i].ret = FreshHandle(calls)]
          ELSE /\ calls' = Append(calls, Call("upload", None))
               /\ workers' = [workers EXCEPT ![i].pc = "emit",
                                             ![i].is_success = FALSE]
    /\ UNCHANGED <<uploaded_file_ref, signals, mainPc, mainO, app, ui>>

\* upload_pdf line 44, the assignment, and line 50
UploadStore(i) ==
    /\ workers[i].pc = "upload_store"
    /\ uploaded_file_ref' = workers[i].ret
    /\ workers' = [workers EXCEPT ![i].pc = "emit", ![i].is_success = TRUE]
    /\ UNCHANGED <<calls, signals, mainPc, mainO, app, ui>>

\* ask_question lines 60-61
AskCheck(i) ==
    /\ workers[i].pc = "ask_check"
    /\ workers' = [workers EXCEPT
                      ![i].pc = IF uploaded_file_ref = None THEN "emit" ELSE "ask_call",
                      ![i].message = IF uploaded_file_ref = None THEN NoDocumentText
                                     ELSE @]
    /\ UNCHANGED <<session, signals, mainPc, mainO, app, ui>>

\* ask_question lines 65-71: the reference is read again for the call;
\* only APIError is caught
AskCall(i) ==
    /\ workers[i].pc = "ask_call"
    /\ calls' = Append(calls, Call("generate", uploaded_file_ref))
    /\ \E o \in Outcomes, text \in ProviderTexts :
          workers' = [workers EXCEPT ![i] =
                         IF o = "error" THEN Ended(@, "raised")
                         ELSE [@ EXCEPT !.pc = "emit",
                                        !.message = IF o = "ok" THEN text
                                                    ELSE GenerationErrorText]]
    /\ UNCHANGED <<uploaded_file_ref, signals, mainPc, mainO, app, ui>>

\* Worker.run lines 101-102 and 107: self.result.emit(...)
Emit(i) ==
    /\ workers[i].pc = "emit"
    /\ workers' = [workers EXCEPT
                      ![i].pc = "emitted",
                      ![i].message =
                          IF workers[i].task_type = "upload_pdf"
                          THEN (IF workers[i].is_success THEN UploadOkText
                                ELSE UploadErrText)
                          ELSE @,
                      ![i].is_success =
                          IF workers[i].task_type = "upload_pdf" THEN @ ELSE TRUE]
    /\ signals' = Append(signals, i)
    /\ UNCHANGED <<session, mainPc, mainO, app, ui>>

-----------------------------------------------------------------------------
(* The GUI thread *)

\* A set_ui_enabled that would forget the line edit
set_ui_enabled_SendButtonOnly(enabled) ==
    /\ question_input' = question_input
    /\ send_button' = enabled

\* ChatbotApp.set_ui_enabled, lines 165-168
set_ui_enabled(enabled) ==
    /\ question_input' = enabled
    /\ send_button' = enabled

\* A select_and_upload_pdf that would leave the upload button enabled
select_and_upload_pdf_ButtonLeftEnabled(path) ==
    /\ mainPc = "loop"
    /\ upload_button
    /\ IF path # <<>>
       THEN /\ Len(workers) < MaxWorkers
            /\ pdf_label' = <<"Uploading: ">> \o basename(path) \o <<"...">>
            /\ set_ui_enabled(FALSE)
            /\ chat_history' = append(chat_history,
                                      <<"--- Uploading ">> \o basename(path) \o <<"... ---">>)
            /\ workers' = Append(workers, NewWorker("upload_pdf", path, 0))
            /\ UNCHANGED <<session, signals, mainPc, mainO, app, pdf_processed,
                           warnings, upload_button>>
       ELSE UNCHANGED vars

\* ChatbotApp.select_and_upload_pdf, lines 170-186; path is what the file
\* dialog returned
select_and_upload_pdf(path) ==
    /\ mainPc = "loop"
    /\ upload_button
    /\ IF path # <<>>
       THEN /\ Len(workers) < MaxWorkers
            /\ pdf_label' = <<"Uploading: ">> \o basename(path) \o <<"...">>
            /\ upload_button' = FALSE
            /\ set_ui_enabled(FALSE)
            /\ chat_history' = append(chat_history,
                                      <<"--- Uploading ">> \o basename(path) \o <<"... ---">>)
            /\ workers' = Append(workers, NewWorker("upload_pdf", path, 0))
            /\ UNCHANGED <<session, signals, mainPc, mainO, app, pdf_processed, warnings>>
       ELSE UNCHANGED vars

\* ChatbotApp.handle_upload_result, lines 188-199, run for the oldest
\* undelivered signal
handle_upload_result(i) ==
    /\ mainPc = "loop"
    /\ signals # <<>> /\ Head(signals) = i
    /\ workers[i].task_type = "upload_pdf"
    /\ signals' = Tail(signals)
    /\ workers' = [workers EXCEPT ![i] = Ended(@, "handled")]
    /\ chat_history' = append(chat_history, workers[i].message)
    /\ upload_button' = TRUE
    /\ IF workers[i].is_success
       THEN /\ pdf_processed' = TRUE
            /\ set_ui_enabled(TRUE)
            /\ pdf_label' = <<"PDF Ready! Ask your questions.">>
       ELSE /\ pdf_processed' = FALSE
            /\ pdf_label' = <<"Error uploading PDF. Please try again.">>
            /\ UNCHANGED <<question_input, send_button>>
    /\ UNCHANGED <<session, mainPc, mainO, app, warnings>>

\* The click or return key reaches the slot: the event loop is running and
\* the Send button or the line edit is enabled
SendQuestionCanRun ==
    /\ mainPc = "loop"
    /\ send_button \/ question_input

\* A send_question that would test the text without stripping it
SendQuestionBranch_NoStrip(typed) ==
    IF typed = <<>> THEN "return"
    ELSE IF ~pdf_processed THEN "warning"
    ELSE "dispatch"

\* send_question lines 203-209: which way the slot goes for the typed text
SendQuestionBranch(typed) ==
    IF strip(typed) = <<>> THEN "return"
    ELSE IF ~pdf_processed THEN "warning"
    ELSE "dispatch"

\* ChatbotApp.send_question, lines 201-219; typed is the line edit's text
\* when the slot runs.  The text is given to each run, not kept between
\* runs, so line 212 (clear) leaves nothing to record.
send_question(typed) ==
    /\ SendQuestionCanRun
    /\ LET question == strip(typed)
           branch == SendQuestionBranch(typed) IN
       IF branch = "return"
       THEN UNCHANGED vars
       ELSE IF branch = "warning"
       THEN /\ warnings < MaxWarnings
            /\ warnings' = warnings + 1
            /\ UNCHANGED <<session, workers, signals, mainPc, mainO, app, pdf_processed,
                           upload_button, question_input, send_button, pdf_label,
                           chat_history>>
       ELSE /\ Len(workers) < MaxWorkers
            /\ LET withQuestion == append(chat_history, <<NL, "User: ">> \o question) IN
               /\ chat_history' = append(withQuestion, Placeholder)
               /\ workers' = Append(workers,
                                    NewWorker("ask_question", question,
                                              Len(Lines(withQuestion)) + 1))
            /\ set_ui_enabled(FALSE)
            /\ UNCHANGED <<session, signals, mainPc, mainO, app, pdf_processed,
                           upload_button, pdf_label, warnings>>

\* ChatbotApp.handle_question_result, lines 221-229
handle_question_result(i) ==
    /\ mainPc = "loop"
    /\ signals # <<>> /\ Head(signals) = i
    /\ workers[i].task_type = "ask_question"
    /\ signals' = Tail(signals)
    /\ workers' = [workers EXCEPT ![i] = Ended(@, "handled")]
    /\ chat_history' = replace(chat_history, Placeholder,
                               <<GEMINI>> \o workers[i].message)
    /\ set_ui_enabled(TRUE)
    /\ UNCHANGED <<session, mainPc, mainO, app, pdf_processed, upload_button,
                   pdf_label, warnings>>

\* aboutToQuit -> cleanup_file (line 126), on the GUI thread: line 75.
\* With nothing to clean up, app.exec() returns to sys.exit (line 236).
Quit ==
    /\ mainPc = "loop"
    /\ IF CleanupGuard(uploaded_file_ref)
       THEN mainPc' = "cleanup_delete" /\ UNCHANGED exit_status
       ELSE mainPc' = "exited" /\ exit_status' = <<QuitStatus>>
    /\ UNCHANGED <<session, workers, signals, mainO, ui, start>>

\* line 77; line 78 is reached only when the call returned
QuitCleanupDelete ==
    /\ mainPc = "cleanup_delete"
    /\ \E o \in Outcomes :
          /\ mainO' = DeleteOutcome(uploaded_file_ref, o)
          /\ mainPc' = IF DeleteOutcome(uploaded_file_ref, o) = "ok"
                       THEN "cleanup_print" ELSE "cleanup_finally"
    /\ calls' = DeleteCalls(calls, uploaded_file_ref)
    /\ UNCHANGED <<uploaded_file_ref, workers, signals, ui, app>>

\* line 78: the read of uploaded_file_ref.name for the print
QuitCleanupPrint ==
    /\ mainPc = "cleanup_print"
    /\ mainO' = PrintOutcome(uploaded_file_ref, mainO)
    /\ mainPc' = "cleanup_finally"
    /\ UNCHANGED <<session, workers, signals, ui, app>>

\* lines 79-82, the write; the event loop has ended either way.  An
\* exception that leaves the slot may end the process before line 236 is
\* reached.
QuitCleanupFinally ==
    /\ mainPc = "cleanup_finally"
    /\ uploaded_file_ref' = ClearedRef(uploaded_file_ref, mainO)
    /\ mainPc' = "exited"
    /\ IF CleanupRaises(mainO)
       THEN \E reached \in BOOLEAN :
               exit_status' = IF reached THEN <<QuitStatus>> ELSE <<>>
       ELSE exit_status' = <<QuitStatus>>
    /\ UNCHANGED <<calls, workers, signals, mainO, ui, start>>

-----------------------------------------------------------------------------
(* The program *)

\* A constructor that would go on without a key
KeyMissing_Never(key) == FALSE

\* line 117: if not api_key
KeyMissing(key) == key = ""

\* The process before line 233: nothing is built yet, the environment holds
\* a key or none
Init ==
    /\ api_key \in ApiKeys
    /\ uploaded_file_ref = None
    /\ calls = <<>>
    /\ workers = <<>>
    /\ signals = <<>>
    /\ mainPc = "start"
    /\ mainO = "none"
    /\ pdf_processed = FALSE
    /\ upload_button = FALSE
    /\ question_input = FALSE
    /\ send_button = FALSE
    /\ pdf_label = <<>>
    /\ chat_history = <<>>
    /\ warnings = 0
    /\ critical_dialogs = 0
    /\ exit_status = <<>>
    /\ window_shown = FALSE
    /\ qa_system = FALSE

\* __main__ lines 233-236 up to the event loop: ChatbotApp.__init__ (lines
\* 112-126) with SimpleQASystem.__init__ (lines 24-31) and init_ui (lines
\* 128-163), then window.show().  Without a key: the dialog and
\* sys.exit(-1), lines 118-119.
Startup ==
    /\ mainPc = "start"
    /\ IF KeyMissing(api_key)
       THEN /\ critical_dialogs' = critical_dialogs + 1
            /\ exit_status' = <<KeyErrorStatus>>
            /\ mainPc' = "key_error"
            /\ UNCHANGED <<session, workers, signals, mainO, ui, api_key,
                           window_shown, qa_system>>
       ELSE /\ qa_system' = TRUE
            /\ uploaded_file_ref' = None
            /\ pdf_label' = <<"No PDF loaded.">>
            /\ upload_button' = TRUE
            /\ chat_history' = WelcomeText
            /\ set_ui_enabled(FALSE)
            /\ pdf_processed' = FALSE
            /\ window_shown' = TRUE
            /\ mainPc' = "loop"
            /\ UNCHANGED <<calls, workers, signals, mainO, warnings, api_key,
                           critical_dialogs, exit_status>>

SelectAndUpload == \E path \in Paths : select_and_upload_pdf(path)
SendQuestion == \E typed \in Typed : send_question(typed)
HandleUploadResult == \E i \in Ids : handle_upload_result(i)
HandleQuestionResult == \E i \in Ids : handle_question_result(i)
RunCleanupCheck == \E i \in Ids : UploadCleanupCheck(i)
RunCleanupDelete == \E i \in Ids : UploadCleanupDelete(i)
RunCleanupPrint == \E i \in Ids : UploadCleanupPrint(i)
RunCleanupFinally == \E i \in Ids : UploadCleanupFinally(i)
RunUploadCall == \E i \in Ids : UploadCall(i)
RunUploadStore == \E i \in Ids : UploadStore(i)
RunAskCheck == \E i \in Ids : AskCheck(i)
RunAskCall == \E i \in Ids : AskCall(i)
RunEmit == \E i \in Ids : Emit(i)

\* A step of some Worker thread
WorkerRuns ==
    \/ RunCleanupCheck
    \/ RunCleanupDelete
    \/ RunCleanupPrint
    \/ RunCleanupFinally
    \/ RunUploadCall
    \/ RunUploadStore
    \/ RunAskCheck
    \/ RunAskCall
    \/ RunEmit

\* A step of the GUI thread
GuiRuns ==
    \/ Startup
    \/ SelectAndUpload
    \/ SendQuestion
    \/ HandleUploadResult
    \/ HandleQuestionResult
    \/ Quit
    \/ QuitCleanupDelete
    \/ QuitCleanupPrint
    \/ QuitCleanupFinally

Next == GuiRuns \/ WorkerRuns

Spec == Init /\ [][Next]_vars

-----------------------------------------------------------------------------
(* Claims *)

UploadWorkers == {i \in Ids : workers[i].task_type = "upload_pdf"}
AskWorkers == {i \in Ids : workers[i].task_type = "ask_question"}

\* The successful files.upload calls made before call k
AcquiredBefore(k) == {j \in 1..(k - 1) : calls[j].op = "upload" /\ calls[j].h # None}

\* C1: the session's one field is its only handle, and upload_pdf reaches
\* files.upload only with that field cleared and with files.delete already
\* called, earlier in the call log, for every handle an earlier upload
\* returned.
C1_ReleaseBeforeAcquire ==
    /\ uploaded_file_ref \in {None} \cup Acquired(calls)
    /\ \A i \in UploadWorkers :
          workers[i].pc = "upload_call" => uploaded_file_ref = None
    /\ \A k \in 1..Len(calls) :
          calls[k].op = "upload" =>
             \A j \in AcquiredBefore(k) :
                \E d \in (j + 1)..(k - 1) : calls[d] = Call("delete", calls[j].h)

\* An upload_pdf that started with a handle held has called files.delete
\* for it and has reached files.upload.
C1_Witness ==
    \E i \in UploadWorkers :
       /\ workers[i].pc = "upload_call"
       /\ calls # <<>> /\ calls[Len(calls)].op = "delete"

-----------------------------------------------------------------------------

\* Every Worker that was started and has neither had its result handled nor
\* been ended by an exception
Outstanding == {i \in Ids : InFlight(i)}

\* The controller's state Ready: a document is in place, nothing is running
Ready ==
    /\ pdf_processed
    /\ uploaded_file_ref # None
    /\ Outstanding = {}

ChatEnabled == question_input /\ send_button

\* C2: whenever send_question can run on a non-empty question, it takes the
\* dispatching branch only in state Ready, and in every other state it takes
\* the warning branch.
C2_QuestionOnlyWhenReady ==
    \A typed \in Typed :
       (SendQuestionCanRun /\ strip(typed) # <<>>) =>
          SendQuestionBranch(typed) = (IF Ready THEN "dispatch" ELSE "warning")

\* C3: at most one Worker is outstanding.
C3_OneInFlight == Cardinality(Outstanding) <= 1

\* C4: handling a question's result finds the paragraph appended as that
\* question's placeholder still the placeholder and turns it into "Gemini: "
\* followed by the text that question's ask returned; the paragraphs that
\* are the other questions' placeholders or answers stay as they are, and
\* the chat input is enabled again.
C4_PlaceholderGetsOwnAnswer ==
    [][\A i \in AskWorkers :
          handle_question_result(i) =>
             /\ Lines(chat_history)[workers[i].slot] = Placeholder
             /\ Lines(chat_history')[workers[i].slot] =
                   <<GEMINI>> \o workers[i].message
             /\ \A j \in AskWorkers \ {i} :
                   Lines(chat_history')[workers[j].slot] =
                      Lines(chat_history)[workers[j].slot]
             /\ ChatEnabled']_vars

\* C5: no Worker.run is ended by an exception, whatever way a provider call
\* fails.
C5_FailuresBecomeValues == \A i \in Ids : workers[i].pc # "raised"

\* C7: an upload_pdf whose delete of the old handle was called and failed,
\* in either way, goes on to files.upload.
C7_CleanupFailureNonBlocking ==
    [][\A i \in UploadWorkers :
          (UploadCleanupFinally(i) /\ workers[i].o \in {"api_error", "error"}) =>
             workers'[i].pc = "upload_call"]_vars

\* C8: ask_question finding no handle returns the NoDocument text without a
\* generate call, and every generate call carries a handle.
C8_GenerateCarriesHandle ==
    \A k \in 1..Len(calls) : calls[k].op = "generate" => calls[k].h # None

\* C9: two cleanup_file calls in a row make at most one files.delete call:
\* the first leaves no handle however its delete ends, and a call made with
\* no handle held calls nothing and changes nothing.
C9_ReleaseIdempotent ==
    \A o1, o2 \in Outcomes :
       LET first == cleanup_file(uploaded_file_ref, calls, o1)
           second == cleanup_file(first.ref, first.calls, o2)
       IN /\ first.ref = None
          /\ CountCalls(second.calls, "delete") <= CountCalls(calls, "delete") + 1
          /\ second.calls = first.calls /\ second.ref = None /\ ~second.raised
          /\ uploaded_file_ref = None =>
                first.calls = calls /\ first.ref = uploaded_file_ref /\ ~first.raised

\* A handle is held, and files.delete has been called before.
C9_Witness ==
    /\ uploaded_file_ref # None
    /\ CountCalls(calls, "delete") > 0
    /\ cleanup_file(uploaded_file_ref, calls, "error").calls # calls

\* C10: once the quit-time cleanup_file has run, the session holds no handle
\* and files.delete has been called for every handle an upload returned.
C10_ReleasedAtQuit ==
    mainPc = "exited" =>
       /\ uploaded_file_ref = None
       /\ Acquired(calls) \subseteq DeleteRequested(calls)

-----------------------------------------------------------------------------
(* Scheduling: a started thread keeps running, and the event loop delivers  *)
(* queued result signals for as long as it runs.  Nothing obliges the user  *)
(* to click, type or quit.                                                  *)

FairSpec ==
    /\ Spec
    /\ WF_vars(WorkerRuns)
    /\ WF_vars(HandleUploadResult)
    /\ WF_vars(HandleQuestionResult)

\* C6: after a question is dispatched the chat input is enabled again,
\* whether its provider call succeeds or fails, unless the application is
\* quit first.
C6_ChatReenabled ==
    \A n \in 1..MaxWorkers :
       (n \in AskWorkers /\ workers[n].pc # "handled")
          ~> (ChatEnabled \/ mainPc # "loop")

-----------------------------------------------------------------------------

\* The upload workers whose result has not been handled and that have not
\* been ended by an exception
UploadsInFlight == {i \in UploadWorkers : InFlight(i)}

\* The token occurs in the text
Contains(text, tok) == \E k \in 1..Len(text) : text[k] = tok

\* The paragraph select_and_upload_pdf appends for a path (line 181)
UploadingLine(path) == <<"--- Uploading ">> \o basename(path) \o <<"... ---">>

LastLine(text) == Lines(text)[Len(Lines(text))]

\* C11: handling the result of a failed upload leaves the session without a
\* handle, the upload button enabled, and the question field and the Send
\* button disabled.
C11_FailedUploadLeavesChatDisabled ==
    [][\A i \in UploadWorkers :
          (handle_upload_result(i) /\ ~workers[i].is_success) =>
             /\ uploaded_file_ref' = None
             /\ upload_button'
             /\ ~question_input' /\ ~send_button']_vars

\* C12: while the event loop runs, no ask_question started by send_question
\* has found the session without a handle, and the NoDocument text is not in
\* the transcript.
C12_GatingPreventsNoDocument ==
    mainPc = "loop" =>
       /\ \A i \in AskWorkers : workers[i].message # NoDocumentText
       /\ ~Contains(chat_history, NoDocumentText[1])

\* C13: while an upload worker is in flight, the question field and the Send
\* button are disabled.
C13_ChatDisabledDuringUpload ==
    UploadsInFlight # {} => ~question_input /\ ~send_button

\* C14: once the window is built, a step never removes a paragraph of the
\* transcript and never changes one, except that handling a question's
\* result turns that question's placeholder paragraph into its answer.
C14_TranscriptAppendOnly ==
    [][mainPc = "loop" =>
          LET old == Lines(chat_history)
              new == Lines(chat_history') IN
          /\ Len(new) >= Len(old)
          /\ \A k \in 1..Len(old) :
                \/ new[k] = old[k]
                \/ /\ old[k] = Placeholder
                   /\ \E i \in AskWorkers :
                         /\ handle_question_result(i)
                         /\ workers[i].slot = k
                         /\ new[k] = <<GEMINI>> \o workers[i].message]_vars

\* C15: in every state send_question takes its first return on a text that
\* is empty after stripping, and a run on such a text changes nothing: no
\* worker, no flag, no widget, no transcript entry, no dialog.
C15_EmptyQuestionNoOp ==
    [][\A typed \in Typed :
          strip(typed) = <<>> =>
             /\ SendQuestionBranch(typed) = "return"
             /\ send_question(typed) => UNCHANGED vars]_vars

\* The slot can run on a blank text in a state where a non-empty question
\* would be dispatched.
C15_Witness ==
    /\ SendQuestionCanRun
    /\ pdf_processed
    /\ Len(workers) < MaxWorkers
    /\ \E typed \in Typed : typed # <<>> /\ SendQuestionBranch(typed) = "return"

\* C16: handling the result of a successful upload leaves the session
\* holding the handle that upload obtained, pdf_processed set, the question
\* field, the Send button and the upload button enabled, and the "PDF
\* uploaded successfully" paragraph last in the transcript, after the
\* "Uploading" paragraph of that upload.
C16_SuccessfulUploadReady ==
    [][\A i \in UploadWorkers :
          (handle_upload_result(i) /\ workers[i].is_success) =>
             /\ uploaded_file_ref' # None
             /\ uploaded_file_ref' = workers[i].ret
             /\ pdf_processed'
             /\ question_input' /\ send_button'
             /\ upload_button'
             /\ LastLine(chat_history') = UploadOkText
             /\ \E k \in 1..(Len(Lines(chat_history')) - 1) :
                   Lines(chat_history')[k] = UploadingLine(workers[i].arg)]_vars

\* A successful upload's result has just been handled.
C16_Witness ==
    /\ mainPc = "loop"
    /\ pdf_processed /\ ChatEnabled /\ upload_button
    /\ uploaded_file_ref # None
    /\ LastLine(chat_history) = UploadOkText

\* C17: with the key missing, the start-up ends with one critical dialog and
\* a non-zero exit status, with no session, no controls, no shown window and
\* no worker, and the event loop is never entered.
C17_MissingKeyExits ==
    api_key = "" =>
       /\ mainPc \in {"start", "key_error"}
       /\ qa_system = FALSE /\ window_shown = FALSE
       /\ workers = <<>> /\ calls = <<>>
       /\ chat_history = <<>> /\ pdf_label = <<>>
       /\ ~upload_button /\ ~question_input /\ ~send_button
       /\ mainPc = "key_error" =>
             critical_dialogs = 1 /\ exit_status = <<KeyErrorStatus>>
                                  /\ exit_status # <<QuitStatus>>

\* The start-up has ended on the missing key.
C17_Witness ==
    /\ api_key = ""
    /\ mainPc = "key_error"
    /\ critical_dialogs = 1

\* C18: at most one upload worker has been started and not had its result
\* handled, and the upload button is disabled for as long as there is one.
C18_OneUploadAtATime ==
    LET unhandled == {i \in UploadWorkers : workers[i].pc # "handled"} IN
    /\ Cardinality(unhandled) <= 1
    /\ unhandled # {} => ~upload_button

\* A second upload is running after a first one was handled.
C18_Witness ==
    /\ \E i \in UploadWorkers : workers[i].pc = "handled"
    /\ \E i \in UploadWorkers : workers[i].pc = "upload_store"
    /\ ~upload_button

\* Before quit, every Worker started has had its result handled
AtRest ==
    /\ mainPc = "loop"
    /\ \A i \in Ids : workers[i].pc = "handled"

\* C19: at rest, pdf_processed is true exactly when the session holds a
\* handle, and the question field and the Send button are enabled only if
\* pdf_processed is true.
C19_FlagAgreesWithHandle ==
    AtRest =>
       /\ pdf_processed <=> (uploaded_file_ref # None)
       /\ (question_input \/ send_button) => pdf_processed

====
